---- MODULE Spec2Model ----
(***************************************************************************)
(* Model of the tournament scraper's extraction and selection engine       *)
(* (bankshot_monitor_multi.py): the time parser, the start-time extraction *)
(* of one card, the selection policy and the poll cycle of main().         *)
(***************************************************************************)
EXTENDS Integers, Sequences, FiniteSets, TLC

VARIABLES
    \* -- one card going through search_tournaments_on_page
    card_text,          \* card.text of the card being processed
    card_pc,            \* "card" before the loop body ran, "done" after
    tournaments_found,  \* the list `tournaments` the page pass returns
    label_hit,          \* index of the priority pattern that matched, 0 if none
    scan_ran,           \* TRUE when the collect-and-exclude branch was entered
    status_step,        \* the step that set actual_status, "none" before
    page,               \* tournament_cards: each card's text, and whether it raises
    card_idx,           \* idx of the card being processed, from 1
    \* -- parse_time_string and the two time fields of a record
    time_in,            \* start_time_str handed to line 352
    time_pc,            \* "call" before, "built" after
    time_fields,        \* the record's start_time / start_time_parsed
    \* -- determine_which_tournament_to_display
    sel_in,             \* the list passed to the selection policy
    sel_pc,             \* "call" before, "returned" after
    sel_out,            \* the record returned, or None
    \* -- the poll cycle of main()
    today,              \* datetime.date.today(), as an index into Calendar
    site,               \* the status the listing page shows for each card
    data_file,          \* content of DATA_FILE
    backup_file,        \* content of DATA_FILE_BACKUP
    poll_pc,            \* "ran" right after a run of main(), else "idle"
    last_loaded,        \* whether the page pass of the latest run succeeded
    last_prev,          \* prev_tournament of the latest run
    last_todays,        \* todays_tournaments of the latest run
    last_selected,      \* selected_tournament of the latest run
    last_save,          \* what save_tournament_data built, tried and wrote
    rerun,              \* TRUE when the latest run had the candidates of the run before
    \* -- the display agents
    cast_seen,          \* catt_monitor: the record it read and its decision
    switch_seen,        \* smart_switcher_status: the same
    cast_state,         \* catt_monitor: the dict `state` of monitor_and_cast
    cast_state_file,    \* content of STATE_FILE
    cast_cycle          \* what the latest turn of the catt_monitor loop did

extractVars == <<card_text, card_pc, tournaments_found, label_hit, scan_ran, status_step,
                 page, card_idx>>
parseVars   == <<time_in, time_pc, time_fields>>
selectVars  == <<sel_in, sel_pc, sel_out>>
pollVars    == <<today, site, data_file, backup_file, poll_pc, last_loaded,
                 last_prev, last_todays, last_selected, last_save, rerun>>
agentVars   == <<cast_seen, switch_seen, cast_state, cast_state_file, cast_cycle>>
vars        == <<extractVars, parseVars, selectVars, pollVars, agentVars>>

\* Python's None
None == "None"

(***************************************************************************)
(* Characters and strings                                                  *)
(***************************************************************************)
Ch(s, i) == SubSeq(s, i, i)

DigitChars == {"0", "1", "2", "3", "4", "5", "6", "7", "8", "9"}
SpaceChars == {" ", "\n", "\t"}

UpperAlpha == "ABCDEFGHIJKLMNOPQRSTUVWXYZ"
LowerAlpha == "abcdefghijklmnopqrstuvwxyz"

\* the letter of `to` at the place the character has in `from`
CaseCh(c, from, to) ==
    IF \E k \in 1..Len(from) : Ch(from, k) = c
    THEN Ch(to, CHOOSE k \in 1..Len(from) : Ch(from, k) = c)
    ELSE c

LowerCh(c) == CaseCh(c, UpperAlpha, LowerAlpha)
UpperCh(c) == CaseCh(c, LowerAlpha, UpperAlpha)

\* str.lower(), halving the string so that the evaluation stays shallow
RECURSIVE StrLower(_)
StrLower(s) ==
    IF Len(s) = 0 THEN ""
    ELSE IF Len(s) = 1 THEN LowerCh(s)
    ELSE StrLower(SubSeq(s, 1, Len(s) \div 2)) \o StrLower(SubSeq(s, Len(s) \div 2 + 1, Len(s)))

\* `sub in s`
Contains(s, sub) ==
    \E i \in 1..(Len(s) - Len(sub) + 1) : SubSeq(s, i, i + Len(sub) - 1) = sub

RECURSIVE LStrip(_)
LStrip(s) ==
    IF Len(s) > 0 /\ Ch(s, 1) \in SpaceChars THEN LStrip(SubSeq(s, 2, Len(s))) ELSE s

RECURSIVE RStrip(_)
RStrip(s) ==
    IF Len(s) > 0 /\ Ch(s, Len(s)) \in SpaceChars
    THEN RStrip(SubSeq(s, 1, Len(s) - 1)) ELSE s

\* str.strip()
Strip(s) == RStrip(LStrip(s))

\* str < str: by code point, a proper prefix first
CharOrd(c) == CHOOSE k \in 1..Len("/0123456789:") : Ch("/0123456789:", k) = c

RECURSIVE StrLess(_, _)
StrLess(a, b) ==
    IF Len(b) = 0 THEN FALSE
    ELSE IF Len(a) = 0 THEN TRUE
    ELSE IF Ch(a, 1) = Ch(b, 1) THEN StrLess(SubSeq(a, 2, Len(a)), SubSeq(b, 2, Len(b)))
    ELSE CharOrd(Ch(a, 1)) < CharOrd(Ch(b, 1))

Max(a, b) == IF a >= b THEN a ELSE b
Min(a, b) == IF a <= b THEN a ELSE b

(***************************************************************************)
(* Regular expressions, matched the way Python's re does: a backtracking   *)
(* search that tries alternatives left to right and repetitions greedily.  *)
(* Ends(r, s, i) is the list of positions at which a match of r starting   *)
(* at position i of s can end, in the order the matcher tries them.        *)
(***************************************************************************)
Cls(cs)        == [t |-> "cls", cs |-> cs]
Cat(rs)        == [t |-> "cat", rs |-> rs]
Alt(rs)        == [t |-> "alt", rs |-> rs]
Rep(r, lo, hi) == [t |-> "rep", r |-> r, lo |-> lo, hi |-> hi]
Opt(r)         == Rep(r, 0, 1)
Star(r)        == Rep(r, 0, -1)      \* hi < 0: no upper limit
Plus(r)        == Rep(r, 1, -1)

\* a literal under re.IGNORECASE
RECURSIVE LitSeq(_)
LitSeq(w) ==
    IF Len(w) = 0 THEN <<>>
    ELSE <<Cls({LowerCh(Ch(w, 1)), UpperCh(Ch(w, 1))})>> \o LitSeq(SubSeq(w, 2, Len(w)))
Lit(w) == Cat(LitSeq(w))

RECURSIVE Ends(_, _, _), EndsEach(_, _, _, _), EndsCat(_, _, _, _),
          EndsAlt(_, _, _, _), EndsRep(_, _, _, _, _), EndsRepEach(_, _, _, _, _, _)

Ends(r, s, i) ==
    CASE r.t = "cls" -> IF i <= Len(s) /\ Ch(s, i) \in r.cs THEN <<i + 1>> ELSE <<>>
      [] r.t = "cat" -> EndsCat(r.rs, 1, s, <<i>>)
      [] r.t = "alt" -> EndsAlt(r.rs, 1, s, i)
      [] r.t = "rep" -> EndsRep(r.r, r.lo, r.hi, s, i)

\* the ends of r from each of the positions ps[k..], in order
EndsEach(r, s, ps, k) ==
    IF k > Len(ps) THEN <<>> ELSE Ends(r, s, ps[k]) \o EndsEach(r, s, ps, k + 1)

EndsCat(rs, k, s, ps) ==
    IF k > Len(rs) THEN ps ELSE EndsCat(rs, k + 1, s, EndsEach(rs[k], s, ps, 1))

EndsAlt(rs, k, s, i) ==
    IF k > Len(rs) THEN <<>> ELSE Ends(rs[k], s, i) \o EndsAlt(rs, k + 1, s, i)

EndsRepEach(r, lo, hi, s, ps, k) ==
    IF k > Len(ps) THEN <<>>
    ELSE EndsRep(r, lo, hi, s, ps[k]) \o EndsRepEach(r, lo, hi, s, ps, k + 1)

EndsRep(r, lo, hi, s, i) ==
    IF hi = 0 THEN <<i>>
    ELSE EndsRepEach(r, Max(lo - 1, 0), hi - 1, s,
                     SelectSeq(Ends(r, s, i), LAMBDA e : e > i), 1)
         \o (IF lo = 0 THEN <<i>> ELSE <<>>)

\* A pattern is a list of parts; part k is a capture group when the source
\* parenthesises it.  MatchParts is one attempt of the matcher on parts k..n
\* at position i: the first way, in backtracking order, to match them all,
\* as the list b of the positions at which the parts end.
NoPath == [ok |-> FALSE, b |-> <<>>]

RECURSIVE MatchParts(_, _, _, _), MatchPartsEach(_, _, _, _, _)
MatchParts(parts, k, s, i) ==
    IF k > Len(parts) THEN [ok |-> TRUE, b |-> <<>>]
    ELSE MatchPartsEach(parts, k, s, Ends(parts[k], s, i), 1)

MatchPartsEach(parts, k, s, es, j) ==
    IF j > Len(es) THEN NoPath
    ELSE LET rest == MatchParts(parts, k + 1, s, es[j])
         IN  IF rest.ok THEN [ok |-> TRUE, b |-> <<es[j]>> \o rest.b]
             ELSE MatchPartsEach(parts, k, s, es, j + 1)

\* pattern.match(s, i): the boundaries m (m[1] = i, part k covers
\* s[m[k] .. m[k+1]-1]), or <<>> when the pattern does not match at i
MatchAt(parts, s, i) ==
    LET path == MatchParts(parts, 1, s, i)
    IN  IF path.ok THEN <<i>> \o path.b ELSE <<>>

\* Whether r can match the empty string, and the characters a non-empty
\* match of r can begin with: the matcher is only started at positions
\* where it has a chance, which changes no result.
RECURSIVE Nullable(_), NullableAll(_, _), NullableAny(_, _)
Nullable(r) ==
    CASE r.t = "cls" -> FALSE
      [] r.t = "cat" -> NullableAll(r.rs, 1)
      [] r.t = "alt" -> NullableAny(r.rs, 1)
      [] r.t = "rep" -> r.lo = 0 \/ Nullable(r.r)
NullableAll(rs, k) == k > Len(rs) \/ (Nullable(rs[k]) /\ NullableAll(rs, k + 1))
NullableAny(rs, k) == k <= Len(rs) /\ (Nullable(rs[k]) \/ NullableAny(rs, k + 1))

RECURSIVE FirstChars(_), FirstOfCat(_, _), FirstOfAlt(_, _)
FirstChars(r) ==
    CASE r.t = "cls" -> r.cs
      [] r.t = "cat" -> FirstOfCat(r.rs, 1)
      [] r.t = "alt" -> FirstOfAlt(r.rs, 1)
      [] r.t = "rep" -> FirstChars(r.r)
FirstOfCat(rs, k) ==
    IF k > Len(rs) THEN {}
    ELSE FirstChars(rs[k]) \cup (IF Nullable(rs[k]) THEN FirstOfCat(rs, k + 1) ELSE {})
FirstOfAlt(rs, k) ==
    IF k > Len(rs) THEN {} ELSE FirstChars(rs[k]) \cup FirstOfAlt(rs, k + 1)

\* re.search from position `from` on: the leftmost position with a match
SearchFrom(parts, s, from) ==
    LET whole == Cat(parts)
        empty == Nullable(whole)
        first == FirstChars(whole)
        hits  == { i \in from..(Len(s) + 1) :
                     /\ empty \/ (i <= Len(s) /\ Ch(s, i) \in first)
                     /\ MatchAt(parts, s, i) # <<>> }
    IN  IF hits = {} THEN <<>>
        ELSE MatchAt(parts, s, CHOOSE i \in hits : \A j \in hits : i <= j)

ReSearch(parts, s) == SearchFrom(parts, s, 1)

\* match.start() and match.end() as 1-based positions (end exclusive)
MStart(m) == m[1]
MEnd(m)   == m[Len(m)]

\* re.finditer: the successive non-overlapping matches, left to right
RECURSIVE FindIterFrom(_, _, _)
FindIterFrom(parts, s, from) ==
    LET m == SearchFrom(parts, s, from)
    IN  IF m = <<>> THEN <<>>
        ELSE <<m>> \o FindIterFrom(parts, s,
                                   IF MEnd(m) > MStart(m) THEN MEnd(m) ELSE MEnd(m) + 1)

ReFindIter(parts, s) == FindIterFrom(parts, s, 1)

\* the text part k of the pattern matched
PartText(s, m, k) == SubSeq(s, m[k], m[k + 1] - 1)

(***************************************************************************)
(* parse_time_string                                                       *)
(***************************************************************************)
DigitVal(c) == CHOOSE k \in 0..9 : Ch("0123456789", k + 1) = c

RECURSIVE IntOf(_)
IntOf(s) ==
    IF Len(s) = 0 THEN 0
    ELSE 10 * IntOf(SubSeq(s, 1, Len(s) - 1)) + DigitVal(Ch(s, Len(s)))

\* the regular expressions datetime.strptime builds for the directives
\* the formats of line 72, with the index of the %I, %M and %p parts
TimeFormats ==
    LET DirI == Alt(<<Cat(<<Cls({"1"}), Cls({"0", "1", "2"})>>),
                      Cat(<<Cls({"0"}), Cls(DigitChars \ {"0"})>>),
                      Cls(DigitChars \ {"0"})>>)
        DirM == Alt(<<Cat(<<Cls({"0", "1", "2", "3", "4", "5"}), Cls(DigitChars)>>),
                      Cls(DigitChars)>>)
        Dirp == Alt(<<Lit("am"), Lit("pm")>>)
        FmtSpace == Plus(Cls(SpaceChars))
        FmtColon == Cls({":"})
    IN  << [parts |-> <<DirI, FmtColon, DirM, FmtSpace, Dirp>>, I |-> 1, M |-> 3, p |-> 5],
           [parts |-> <<DirI, FmtColon, DirM, Dirp>>,           I |-> 1, M |-> 3, p |-> 4],
           [parts |-> <<DirI, FmtSpace, Dirp>>,                 I |-> 1, M |-> 0, p |-> 3],
           [parts |-> <<DirI, Dirp>>,                           I |-> 1, M |-> 0, p |-> 2] >>

\* datetime.strptime(s, fmt).time(): ValueError when the format does not
\* match at the start of s or when unconverted data remains
Strptime(s, fmt) ==
    LET m == MatchAt(fmt.parts, s, 1)
    IN  IF m = <<>> \/ MEnd(m) # Len(s) + 1
        THEN [raised |-> TRUE, hour |-> 0, minute |-> 0]
        ELSE LET hr == IntOf(PartText(s, m, fmt.I))
                 mn == IF fmt.M = 0 THEN 0 ELSE IntOf(PartText(s, m, fmt.M))
                 pm == StrLower(PartText(s, m, fmt.p)) = "pm"
             IN  [raised |-> FALSE,
                  hour   |-> IF pm THEN (IF hr = 12 THEN 12 ELSE hr + 12)
                                   ELSE (IF hr = 12 THEN 0 ELSE hr),
                  minute |-> mn]

\* what parse_time_string hands back: `raised` when an exception leaves the
\* function, else `ok` with a datetime.time, else None
NotParsed == [raised |-> FALSE, ok |-> FALSE, hour |-> 0, minute |-> 0]
Escaped   == [raised |-> TRUE,  ok |-> FALSE, hour |-> 0, minute |-> 0]
Parsed(r) == [raised |-> FALSE, ok |-> TRUE, hour |-> r.hour, minute |-> r.minute]

\* a variant without the inner try/except: the first ValueError escapes
TryFormatsUnguarded(s, k) ==
    LET r == Strptime(s, TimeFormats[k])
    IN  IF r.raised THEN Escaped ELSE Parsed(r)

\* the loop of lines 72-78: a format that raises is skipped
RECURSIVE TryFormats(_, _)
TryFormats(s, k) ==
    IF k > Len(TimeFormats) THEN NotParsed
    ELSE LET r == Strptime(s, TimeFormats[k])
         IN  IF r.raised THEN TryFormats(s, k + 1) ELSE Parsed(r)

\* parse_time_string(time_str).  None.strip() raises inside the outer try
\* and is turned into None.
ParseTimeString(time_str) ==
    IF time_str = None THEN NotParsed
    ELSE TryFormats(Strip(time_str), 1)

\* time.strftime("%H:%M")
Pad2(n) == Ch("0123456789", (n \div 10) + 1) \o Ch("0123456789", (n % 10) + 1)
StrftimeHM(t) == Pad2(t.hour) \o ":" \o Pad2(t.minute)

\* lines 352 and 431-432: the two time fields of tournament_info.  `built`
\* is FALSE when an exception reached the handler of line 445, which skips
\* the card.
TimeFields(start_time_str) ==
    LET r == IF start_time_str # None /\ start_time_str # ""
             THEN ParseTimeString(start_time_str) ELSE NotParsed
    IN  IF r.raised
        THEN [built |-> FALSE, start_time |-> None, start_time_parsed |-> None]
        ELSE [built |-> TRUE,
              start_time |-> start_time_str,
              start_time_parsed |-> IF r.ok THEN StrftimeHM(r) ELSE None]

(***************************************************************************)
(* Start-time extraction of one card (search_tournaments_on_page)          *)
(***************************************************************************)
VENUE_NAME == "Bankshot Billiards"
VENUE_CITY == "Hilliard"

\* characters of context kept on each side of a collected time
ContextChars == 50

ReSpaces   == Plus(Cls(SpaceChars))                    \* \s+
ReLabelSep == Plus(Cls({":"} \cup SpaceChars))         \* [:\s]+
ReOptS     == Opt(Cls({"s", "S"}))                     \* [s]?
ReMeridiem == Cat(<<Star(Cls(SpaceChars)), Cls({"A", "a", "P", "p"}), Opt(Cls({"."})),
                    Cls({"M", "m"}), Opt(Cls({"."}))>>) \* \s*[AP]\.?M\.?
ReHour     == Rep(Cls(DigitChars), 1, 2)               \* \d{1,2}
ReMinutes  == Cat(<<Cls({":"}), Rep(Cls(DigitChars), 2, 2)>>)   \* :\d{2}

\* (\d{1,2}(?::\d{2})?\s*[AP]\.?M\.?)
ReLabelTime == Cat(<<ReHour, Opt(ReMinutes), ReMeridiem>>)

\* priority_patterns, in the order of the list; part 2 is group 1
PriorityPatterns == <<
    <<Cat(<<Opt(Cat(<<Lit("Tournament"), ReSpaces>>)), Lit("Start"), ReOptS, ReLabelSep>>),
      ReLabelTime>>,
    <<Cat(<<Opt(Cat(<<Lit("Play"), ReSpaces>>)), Lit("Start"), ReOptS, ReLabelSep>>),
      ReLabelTime>>,
    <<Cat(<<Lit("Start"), ReSpaces, Lit("Time"), ReLabelSep>>), ReLabelTime>>,
    <<Cat(<<Lit("Begin"), ReOptS, ReLabelSep>>), ReLabelTime>> >>

\* the same list searched in the opposite order
PriorityPatternsReversed ==
    [k \in 1..Len(PriorityPatterns) |-> PriorityPatterns[Len(PriorityPatterns) + 1 - k]]

\* all_time_patterns, in the order of the list; part 2 is group 1
AllTimePatterns == <<
    <<Cat(<<>>), Cat(<<ReHour, ReMinutes, ReMeridiem>>)>>,
    <<Cat(<<>>), Cat(<<ReHour, ReMeridiem>>)>> >>

\* the same list scanned in the opposite order
AllTimePatternsSwapped ==
    [k \in 1..Len(AllTimePatterns) |-> AllTimePatterns[Len(AllTimePatterns) + 1 - k]]

ExcludeKeywords == <<"registration", "check-in", "check in", "checkin", "sign-in",
                     "signin", "sign in", "doors", "door open">>

\* lines 290-295: the first pattern of the list that matches anywhere in
\* the text; 0 when none does
RECURSIVE FirstLabelFrom(_, _, _)
FirstLabelFrom(patterns, card, k) ==
    IF k > Len(patterns) THEN 0
    ELSE IF ReSearch(patterns[k], card) # <<>> THEN k
    ELSE FirstLabelFrom(patterns, card, k + 1)

\* a variant that searches the list from its end
FirstLabelReversed(card) ==
    LET k == FirstLabelFrom(PriorityPatternsReversed, card, 1)
    IN  IF k = 0 THEN 0 ELSE Len(PriorityPatterns) + 1 - k

FirstLabel(card) == FirstLabelFrom(PriorityPatterns, card, 1)

LabelTime(card, k) ==
    Strip(PartText(card, ReSearch(PriorityPatterns[k], card), 2))

\* lines 309-319: one entry of all_times_found per match (pos and end are
\* match.start() and match.end(), which the source uses and does not keep)
TimeInfo(card, m) ==
    LET start_pos == Max(0, (MStart(m) - 1) - ContextChars)
        end_pos   == Min(Len(card), (MEnd(m) - 1) + ContextChars)
    IN  [time    |-> Strip(PartText(card, m, 2)),
         context |-> SubSeq(card, start_pos + 1, end_pos),
         pos     |-> MStart(m) - 1,
         end     |-> MEnd(m) - 1]

TimeInfos(card, ms) == [j \in 1..Len(ms) |-> TimeInfo(card, ms[j])]

\* lines 307-319: every match of the first pattern, then every match of
\* the second
RECURSIVE CollectTimes(_, _, _)
CollectTimes(patterns, card, k) ==
    IF k > Len(patterns) THEN <<>>
    ELSE TimeInfos(card, ReFindIter(patterns[k], card))
         \o CollectTimes(patterns, card, k + 1)

\* a variant that scans the hour-only pattern before the hour:minute one
AllTimesFoundSwapped(card) == CollectTimes(AllTimePatternsSwapped, card, 1)

AllTimesFound(card) == CollectTimes(AllTimePatterns, card, 1)

\* line 329-330
IsExcluded(time_info) ==
    LET context_lower == StrLower(time_info.context)
    IN  \E j \in 1..Len(ExcludeKeywords) : Contains(context_lower, ExcludeKeywords[j])

FilteredTimes(all_times_found) ==
    SelectSeq(all_times_found, LAMBDA t : ~IsExcluded(t))

\* lines 340-347
PickTime(all_times_found) ==
    LET filtered_times == FilteredTimes(all_times_found)
    IN  IF filtered_times # <<>> THEN filtered_times[Len(filtered_times)].time
        ELSE IF all_times_found # <<>> THEN all_times_found[Len(all_times_found)].time
        ELSE None

\* lines 279-350: start_time_str, with the pattern that supplied it and
\* whether the scan of all times ran
ExtractStartTime(card) ==
    LET k == FirstLabel(card)
        labelled == IF k > 0 THEN LabelTime(card, k) ELSE None
    IN  IF labelled # None /\ labelled # ""
        THEN [start_time_str |-> labelled, label |-> k, scanned |-> FALSE]
        ELSE [start_time_str |-> PickTime(AllTimesFound(card)), label |-> k,
              scanned |-> TRUE]

(***************************************************************************)
(* The status of a card: keywords, then percent complete, then the date    *)
(***************************************************************************)
\* status_indicators, in the insertion order of the dictionary
StatusIndicators == <<
    [status |-> "In Progress", keywords |-> <<"In Progress", "Live", "Active", "Playing">>],
    [status |-> "Upcoming",    keywords |-> <<"Upcoming", "Scheduled", "Future">>],
    [status |-> "Completed",   keywords |-> <<"Completed", "Finished", "Final", "Ended">>] >>

\* the same entries visited in the opposite order
StatusIndicatorsReversed ==
    [k \in 1..Len(StatusIndicators) |-> StatusIndicators[Len(StatusIndicators) + 1 - k]]

\* any(keyword in card_text for keyword in keywords)
AnyKeyword(card, keywords) == \E k \in 1..Len(keywords) : Contains(card, keywords[k])

\* the loop of lines 364-368: the status of the first entry with a keyword
\* in the card, "Unknown" when no entry has one
RECURSIVE KeywordStatusFrom(_, _, _)
KeywordStatusFrom(indicators, card, k) ==
    IF k > Len(indicators) THEN "Unknown"
    ELSE IF AnyKeyword(card, indicators[k].keywords) THEN indicators[k].status
    ELSE KeywordStatusFrom(indicators, card, k + 1)

KeywordStatusReversed(card) == KeywordStatusFrom(StatusIndicatorsReversed, card, 1)

KeywordStatus(card) == KeywordStatusFrom(StatusIndicators, card, 1)

\* (\d+)%\s*Complete ; part 1 is group 1
ReCompletion == <<Plus(Cls(DigitChars)),
                  Cat(<<Cls({"%"}), Star(Cls(SpaceChars)), Lit("Complete")>>)>>

\* lines 379-387 without the test for 0
PercentStatusNoZero(completion_pct) ==
    IF completion_pct = 100 THEN "Completed"
    ELSE IF completion_pct >= 0 /\ completion_pct < 100 THEN "In Progress"
    ELSE "Unknown"

\* lines 379-387
PercentStatus(completion_pct) ==
    IF completion_pct = 100 THEN "Completed"
    ELSE IF completion_pct = 0 THEN "Upcoming"
    ELSE IF completion_pct > 0 /\ completion_pct < 100 THEN "In Progress"
    ELSE "Unknown"

\* date.strftime("%Y/%m/%d") of the days the model runs through
Calendar == <<"2025/11/29", "2025/11/30", "2025/12/01", "2025/12/02", "2025/12/03">>

DateStr(day) == Calendar[day]

\* (\d{4}/\d{2}/\d{2}) ; part 1 is group 1
ReDate == <<Cat(<<Rep(Cls(DigitChars), 4, 4), Cls({"/"}), Rep(Cls(DigitChars), 2, 2),
                  Cls({"/"}), Rep(Cls(DigitChars), 2, 2)>>)>>

\* lines 274-275
TournamentDate(card) ==
    LET date_match == ReSearch(ReDate, card)
    IN  IF date_match = <<>> THEN None ELSE PartText(card, date_match, 1)

\* lines 390-403, with a later date read as a past one
DateStatusEitherSide(tournament_date, today_str) ==
    IF tournament_date = None \/ tournament_date = "" THEN "Unknown"
    ELSE IF tournament_date = today_str THEN "Upcoming"
    ELSE "Completed"

\* lines 390-403
DateStatus(tournament_date, today_str) ==
    IF tournament_date = None \/ tournament_date = "" THEN "Unknown"
    ELSE IF tournament_date = today_str THEN "Upcoming"
    ELSE IF StrLess(tournament_date, today_str) THEN "Completed"
    ELSE "Unknown"

\* lines 355-404: actual_status, with the step that was the last consulted
ActualStatus(card, today_str) ==
    LET by_keyword == KeywordStatus(card)
        completion_match == ReSearch(ReCompletion, card)
    IN  IF by_keyword # "Unknown"
        THEN [status |-> by_keyword, step |-> "keyword"]
        ELSE IF completion_match # <<>>
        THEN [status |-> PercentStatus(IntOf(PartText(card, completion_match, 1))),
              step |-> "percent"]
        ELSE [status |-> DateStatus(TournamentDate(card), today_str), step |-> "date"]

(***************************************************************************)
(* Cards: a venue line followed by up to MaxLines lines                    *)
(***************************************************************************)
MaxLines == 3

Headers == <<"Bankshot Billiards, Hilliard OH", "Bankshot Billiards, Columbus OH",
             "Cue Club, Hilliard OH">>

CardLines == <<
    "Registration: 6:00 PM",
    "Doors: 6:30 PM",
    "Tournament Start: 7:00 PM",
    "Begins 5PM",
    "Start Time: 8 P.M.",
    "9 PM",
    "7:30 PM",
    "Weekly 9-Ball Handicap - Race to 5 - Double Elimination Bracket" >>

RECURSIVE JoinLines(_, _, _)
JoinLines(lines, ix, k) ==
    IF k > Len(ix) THEN "" ELSE "\n" \o lines[ix[k]] \o JoinLines(lines, ix, k + 1)

\* the bodies of up to n lines, no line twice
Bodies(n) ==
    UNION { { ix \in [1..m -> 1..Len(CardLines)] :
                \A a, b \in 1..m : a # b => ix[a] # ix[b] } : m \in 0..n }

\* the cards of the venue, and a few of the same venue in another city
Cards(n) ==
    { Headers[1] \o JoinLines(CardLines, ix, 1) : ix \in Bodies(n) }
    \cup { Headers[h] \o JoinLines(CardLines, ix, 1) :
             h \in 2..Len(Headers), ix \in Bodies(1) }

\* cards that state a status: up to MaxStatusLines lines after the venue line
MaxStatusLines == 2

StatusLines == <<
    "Status: Playing",
    "Scheduled",
    "Completed",
    "0% Complete",
    "50% complete",
    "100%  Complete",
    "2025/11/30",
    "Race to 5, 7:00 PM" >>

StatusCards(n) ==
    { Headers[1] \o JoinLines(StatusLines, ix, 1) :
        ix \in UNION { { jx \in [1..m -> 1..Len(StatusLines)] :
                           \A a, b \in 1..m : a # b => jx[a] # jx[b] } : m \in 0..n } }
    \cup { Headers[2] \o "\n" \o StatusLines[1] }

\* pages: up to MaxCards cards, each of which may raise while it is read
MaxCards == 3

Pages(n) ==
    LET texts == { Headers[1] \o "\n2025/11/29\nTournament Start: 7:00 PM",
                   Headers[1] \o "\n2025/11/30\nStart Time: 8 P.M.",
                   Headers[2] \o "\n2025/12/01\n9 PM" }
    IN  UNION { [1..m -> [text : texts, raises : BOOLEAN]] : m \in 1..n }

(***************************************************************************)
(* The loop body of search_tournaments_on_page, for one card               *)
(***************************************************************************)
\* a filter on the venue name alone
VenueNameOnly(card) == Contains(card, VENUE_NAME)

\* lines 209-214
VenueMatches(card) == Contains(card, VENUE_NAME) /\ Contains(card, VENUE_CITY)

IdleExtract ==
    /\ card_text = ""
    /\ card_pc = "idle"
    /\ tournaments_found = <<>>
    /\ label_hit = 0
    /\ scan_ran = FALSE
    /\ status_step = "none"
    /\ page = <<>>
    /\ card_idx = 0

\* lines 209-214: a card of another venue or city is skipped
SkipCard ==
    /\ card_pc = "card"
    /\ ~page[card_idx].raises
    /\ ~VenueMatches(card_text)
    /\ card_pc' = "done"
    /\ UNCHANGED <<card_text, tournaments_found, label_hit, scan_ran, status_step,
                   page, card_idx>>

\* the loop body without its try: the exception leaves the loop and reaches
\* the handler of the function, which returns []
FailCardUnguarded ==
    /\ card_pc = "card"
    /\ page[card_idx].raises
    /\ card_pc' = "done"
    /\ tournaments_found' = <<>>
    /\ card_idx' = Len(page)
    /\ card_text' = page[Len(page)].text
    /\ UNCHANGED <<label_hit, scan_ran, status_step, page>>

\* lines 189 and 445-449: an exception raised while the card is read
\* (card.text or card.find_element on an element that went stale) is
\* logged and the loop goes on with the next card
FailCard ==
    /\ card_pc = "card"
    /\ page[card_idx].raises
    /\ card_pc' = "done"
    /\ UNCHANGED <<card_text, tournaments_found, label_hit, scan_ran, status_step,
                   page, card_idx>>

\* line 188: the for loop takes the next card
NextCard ==
    /\ card_pc = "done"
    /\ card_idx < Len(page)
    /\ card_idx' = card_idx + 1
    /\ card_text' = page[card_idx + 1].text
    /\ card_pc' = "card"
    /\ label_hit' = 0
    /\ scan_ran' = FALSE
    /\ status_step' = "none"
    /\ UNCHANGED <<tournaments_found, page>>

\* lines 216-449 for a matching card: the record is appended unless an
\* exception reached the handler of line 445
ProcessCard ==
    /\ card_pc = "card"
    /\ ~page[card_idx].raises
    /\ VenueMatches(card_text)
    /\ LET x == ExtractStartTime(card_text)
           f == TimeFields(x.start_time_str)
           st == ActualStatus(card_text, DateStr(today))
       IN  /\ label_hit' = x.label
           /\ scan_ran' = x.scanned
           /\ status_step' = st.step
           /\ tournaments_found' =
                 IF f.built
                 THEN Append(tournaments_found,
                             [venue |-> VENUE_NAME \o ", " \o VENUE_CITY,
                              date |-> TournamentDate(card_text),
                              start_time |-> f.start_time,
                              start_time_parsed |-> f.start_time_parsed,
                              status |-> st.status])
                 ELSE tournaments_found
    /\ card_pc' = "done"
    /\ UNCHANGED <<card_text, page, card_idx>>

(***************************************************************************)
(* Time strings handed to line 352                                         *)
(***************************************************************************)
TimeStrings ==
    { pad \o h \o m \o g \o p \o pad :
        h \in {"1", "7", "12", "07", "0", "13"},
        m \in {"", ":00", ":30", ":05", ":5", ":60"},
        g \in {"", " "},
        p \in {"AM", "PM", "pm", "P.M.", "A.M.", "PM.", "XM", ""},
        pad \in {"", " "} }
    \cup {None, "", "noon", "7:00", "PM", "7:00 PM tonight", "00 PM", "30 PM"}

IdleParse ==
    /\ time_in = ""
    /\ time_pc = "idle"
    /\ time_fields = [built |-> FALSE, start_time |-> None, start_time_parsed |-> None]

\* lines 352 and 427-436: the time fields of the record of one card
BuildTimeFields ==
    /\ time_pc = "call"
    /\ time_fields' = TimeFields(time_in)
    /\ time_pc' = "built"
    /\ UNCHANGED time_in

(***************************************************************************)
(* determine_which_tournament_to_display                                   *)
(***************************************************************************)
Statuses == {"In Progress", "Upcoming", "Completed", "Unknown"}

\* the value a Python None tournament has in this model
NoRecord == [name |-> None, venue |-> None, date |-> None, start_time |-> None,
             start_time_parsed |-> None, status |-> None, url |-> None]

\* key=lambda x: x['start_time_parsed'] if x['start_time_parsed'] else "00:00"
SortKey(t) ==
    IF t.start_time_parsed # None /\ t.start_time_parsed # ""
    THEN t.start_time_parsed ELSE "00:00"

\* sorted(): stable, and stable under reverse=True as well
RECURSIVE InsertSorted(_, _, _, _)
InsertSorted(done, x, reverse, k) ==
    IF k > Len(done) THEN Append(done, x)
    ELSE IF (IF reverse THEN StrLess(SortKey(done[k]), SortKey(x))
                        ELSE StrLess(SortKey(x), SortKey(done[k])))
         THEN SubSeq(done, 1, k - 1) \o <<x>> \o SubSeq(done, k, Len(done))
         ELSE InsertSorted(done, x, reverse, k + 1)

RECURSIVE SortedFrom(_, _, _, _)
SortedFrom(ts, reverse, k, done) ==
    IF k > Len(ts) THEN done
    ELSE SortedFrom(ts, reverse, k + 1, InsertSorted(done, ts[k], reverse, 1))

Sorted(ts, reverse) == SortedFrom(ts, reverse, 1, <<>>)

\* line 594
InProgressOf(tournaments) == SelectSeq(tournaments, LAMBDA t : t.status = "In Progress")

\* a variant that takes the earliest of several in progress
PickInProgressEarliest(in_progress) ==
    IF Len(in_progress) > 1 THEN Sorted(in_progress, FALSE)[1] ELSE in_progress[1]

\* lines 600-611
PickInProgress(in_progress) ==
    IF Len(in_progress) > 1 THEN Sorted(in_progress, TRUE)[1] ELSE in_progress[1]

\* a variant that also drops the records of unknown status
NotCompletedNorUnknown(tournaments) ==
    SelectSeq(tournaments, LAMBDA t : t.status # "Completed" /\ t.status # "Unknown")

\* line 617
NotCompleted(tournaments) == SelectSeq(tournaments, LAMBDA t : t.status # "Completed")

\* a variant that takes the last scheduled record
PickLastScheduled(not_completed) == Sorted(not_completed, TRUE)[1]

\* lines 624-631
PickFirstScheduled(not_completed) == Sorted(not_completed, FALSE)[1]

\* lines 577-631
DetermineWhichTournamentToDisplay(tournaments) ==
    IF tournaments = <<>> THEN NoRecord
    ELSE IF InProgressOf(tournaments) # <<>>
         THEN PickInProgress(InProgressOf(tournaments))
    ELSE IF NotCompleted(tournaments) = <<>> THEN NoRecord
    ELSE PickFirstScheduled(NotCompleted(tournaments))

\* inputs of the selection policy: up to MaxTournaments records
MaxTournaments == 3

TournamentNames == <<"Tuesday 9-Ball", "Sunday 8-Ball Shootout", "Late Night 10-Ball",
                     "Open Scotch Doubles", "Ladies 9-Ball">>

Candidate(k, status, parsed) ==
    [name |-> TournamentNames[k], venue |-> VENUE_NAME \o ", " \o VENUE_CITY,
     date |-> "2025/11/29", start_time |-> IF parsed = None THEN None ELSE parsed \o " raw",
     start_time_parsed |-> parsed,
     status |-> status, url |-> None]

CandidateLists(max) ==
    UNION { { [k \in 1..n |-> Candidate(k, st[k], tm[k])] :
                st \in [1..n -> Statuses], tm \in [1..n -> {None, "17:00", "20:00"}] } :
            n \in 0..max }

IdleSelect ==
    /\ sel_in = <<>>
    /\ sel_pc = "idle"
    /\ sel_out = NoRecord

\* one call of the selection policy
Determine ==
    /\ sel_pc = "call"
    /\ sel_out' = DetermineWhichTournamentToDisplay(sel_in)
    /\ sel_pc' = "returned"
    /\ UNCHANGED sel_in

(***************************************************************************)
(* The poll cycle: main() against a listing page that changes between runs *)
(***************************************************************************)
MaxDay == 3

\* the cards of the venue on the listing page; their status is `site`
Listing == <<
    [name |-> "Tuesday 9-Ball", date |-> Calendar[1], start_time |-> "6:00 PM",
     start_time_parsed |-> "18:00", url |-> "https://digitalpool.com/tournaments/tuesday/"],
    [name |-> "Sunday 8-Ball Shootout", date |-> Calendar[1], start_time |-> "8:00 PM",
     start_time_parsed |-> "20:00", url |-> "https://digitalpool.com/tournaments/sunday/"],
    [name |-> "Late Night 10-Ball", date |-> Calendar[2], start_time |-> "7 P.M.",
     start_time_parsed |-> None, url |-> "https://digitalpool.com/tournaments/late/"],
    [name |-> "Open Scotch Doubles", date |-> None, start_time |-> "7:00 PM",
     start_time_parsed |-> "19:00", url |-> None] >>

\* lines 427-438: the records search_tournaments_on_page returns
SearchTournamentsOnPage(shown) ==
    [i \in 1..Len(Listing) |->
        [name |-> Listing[i].name, venue |-> VENUE_NAME \o ", " \o VENUE_CITY,
         date |-> Listing[i].date, start_time |-> Listing[i].start_time,
         start_time_parsed |-> Listing[i].start_time_parsed, status |-> shown[i],
         url |-> Listing[i].url]]

\* a variant of the filter that lets undated records through
TodaysOrUndated(all_tournaments, today_str) ==
    SelectSeq(all_tournaments, LAMBDA t : t.date = today_str \/ t.date = None)

\* line 551
TodaysTournaments(all_tournaments, today_str) ==
    SelectSeq(all_tournaments, LAMBDA t : t.date = today_str)

\* lines 515-574; `loaded` is FALSE when the page did not load or the pass
\* raised, and the function then returns []
GetAllTodaysTournaments(shown, day, loaded) ==
    IF ~loaded THEN <<>>
    ELSE TodaysTournaments(SearchTournamentsOnPage(shown), DateStr(day))

\* what DATA_FILE holds before the first write
MissingFile == [tournament_name |-> None, tournament_url |-> None, venue |-> None,
                date |-> None, start_time |-> None, status |-> None,
                payout_data |-> None, display_tournament |-> FALSE]

\* a file that json.load cannot read
CorruptFile == [tournament_name |-> "{", tournament_url |-> None, venue |-> None,
                date |-> None, start_time |-> None, status |-> None,
                payout_data |-> None, display_tournament |-> FALSE]

\* datetime.strptime(s, "%Y/%m/%d").date(): the day, 0 when it raises
DayOf(s) ==
    IF \E d \in 1..Len(Calendar) : Calendar[d] = s
    THEN CHOOSE d \in 1..Len(Calendar) : Calendar[d] = s
    ELSE 0

\* lines 639-657, the body of the try: `raised` when a statement of it
\* raises (open or json.load on a missing or unreadable file, strptime on
\* a date of another shape)
PreviousStillActiveBody(prev_data, day) ==
    IF prev_data = MissingFile \/ prev_data = CorruptFile
    THEN [flagged |-> FALSE, raised |-> TRUE, data |-> MissingFile]
    ELSE IF prev_data.display_tournament /\ prev_data.status = "In Progress"
    THEN IF prev_data.date = None \/ prev_data.date = ""
         THEN [flagged |-> FALSE, raised |-> FALSE, data |-> MissingFile]
         ELSE IF DayOf(prev_data.date) = 0
         THEN [flagged |-> FALSE, raised |-> TRUE, data |-> MissingFile]
         ELSE IF DayOf(prev_data.date) < day
         THEN [flagged |-> TRUE, raised |-> FALSE, data |-> prev_data]
         ELSE [flagged |-> FALSE, raised |-> FALSE, data |-> MissingFile]
    ELSE [flagged |-> FALSE, raised |-> FALSE, data |-> MissingFile]

\* the same function flagging a record of today too
CheckPreviousIncludingToday(prev_data, day) ==
    LET body == PreviousStillActiveBody(prev_data, day + 1)
    IN  IF body.raised THEN [flagged |-> FALSE, raised |-> FALSE, data |-> MissingFile]
        ELSE body

\* lines 634-659: the bare except of line 658 turns every exception of the
\* body into None
CheckPreviousTournamentStillActive(prev_data, day) ==
    LET body == PreviousStillActiveBody(prev_data, day)
    IN  IF body.raised THEN [flagged |-> FALSE, raised |-> FALSE, data |-> MissingFile]
        ELSE body

\* the same mapping comparing the name as it is written
PayoutDataCaseSensitive(tournament) ==
    IF tournament.name # None /\ tournament.name # ""
       /\ Contains(tournament.name, "8-ball")
    THEN "payouts20.json" ELSE "payouts15.json"

\* lines 677-681
PayoutData(tournament) ==
    IF tournament.name # None /\ tournament.name # ""
       /\ Contains(StrLower(tournament.name), "8-ball")
    THEN "payouts20.json" ELSE "payouts15.json"

\* the record of lines 664-696 for a display flag and a sentinel status
OutputRecord(tournament, should_display, sentinel_status) ==
    IF tournament = NoRecord
    THEN [tournament_name |-> "No tournaments to display", tournament_url |-> None,
          venue |-> None, date |-> None, start_time |-> None, status |-> sentinel_status,
          payout_data |-> None, display_tournament |-> FALSE]
    ELSE [tournament_name |-> tournament.name, tournament_url |-> tournament.url,
          venue |-> tournament.venue, date |-> tournament.date,
          start_time |-> tournament.start_time, status |-> tournament.status,
          payout_data |-> PayoutData(tournament),
          display_tournament |-> should_display]

\* the rule that displays a tournament In Progress only
OutputDataInProgressOnly(tournament) ==
    OutputRecord(tournament, tournament.status = "In Progress", None)

\* a sentinel that states a status
OutputDataSentinelUnknown(tournament) ==
    OutputRecord(tournament, tournament.status \in {"In Progress", "Upcoming"}, "Unknown")

\* a display flag that leans on the record written before
OutputDataAlternating(tournament) ==
    OutputRecord(tournament, /\ tournament.status \in {"In Progress", "Upcoming"}
                             /\ ~data_file.display_tournament, None)

\* lines 664-696, without last_updated
OutputData(tournament) ==
    IF tournament = NoRecord
    THEN [tournament_name |-> "No tournaments to display", tournament_url |-> None,
          venue |-> None, date |-> None, start_time |-> None, status |-> None,
          payout_data |-> None, display_tournament |-> FALSE]
    ELSE [tournament_name |-> tournament.name, tournament_url |-> tournament.url,
          venue |-> tournament.venue, date |-> tournament.date,
          start_time |-> tournament.start_time, status |-> tournament.status,
          payout_data |-> PayoutData(tournament),
          display_tournament |-> tournament.status \in {"In Progress", "Upcoming"}]

\* the status a card can show next: a tournament is announced, played and
\* completed; a card that states no status and no date reads Unknown
NextStatus(st) ==
    CASE st = "Upcoming"    -> "In Progress"
      [] st = "Unknown"     -> "In Progress"
      [] st = "In Progress" -> "Completed"
      [] st = "Completed"   -> "Completed"

InitialStatus(i) == IF Listing[i].date = None THEN "Unknown" ELSE "Upcoming"

\* line 707: the paths written, in the order of the list
Sinks == <<"DATA_FILE", "DATA_FILE_BACKUP">>

\* what a write of lines 708-711 can come to: done, or refused with the
\* file left as it was (open raises)
WriteOutcomes == {"ok", "denied"}

\* the loop of lines 707-713 without its try: the first failure leaves it
RECURSIVE WriteSinksUnguarded(_, _, _)
WriteSinksUnguarded(paths, outcome, k) ==
    IF k > Len(paths) THEN [attempted |-> <<>>, raised |-> FALSE]
    ELSE IF outcome[paths[k]] # "ok" THEN [attempted |-> <<paths[k]>>, raised |-> TRUE]
    ELSE LET rest == WriteSinksUnguarded(paths, outcome, k + 1)
         IN  [attempted |-> <<paths[k]>> \o rest.attempted, raised |-> rest.raised]

\* the loop of lines 707-713: the paths on which a write was attempted, and
\* whether an exception left the loop
RECURSIVE WriteSinks(_, _, _)
WriteSinks(paths, outcome, k) ==
    IF k > Len(paths) THEN [attempted |-> <<>>, raised |-> FALSE]
    ELSE LET rest == WriteSinks(paths, outcome, k + 1)
         IN  [attempted |-> <<paths[k]>> \o rest.attempted, raised |-> rest.raised]

\* the content of a path after the call
FileAfter(path, content, tried, outcome, output_data) ==
    IF \A k \in 1..Len(tried.attempted) : tried.attempted[k] # path THEN content
    ELSE IF outcome[path] = "ok" THEN output_data ELSE content

NothingSaved == [output_data |-> MissingFile, attempted |-> <<>>, raised |-> FALSE]

\* lines 662-713
SaveTournamentData(tournament, outcome) ==
    LET output_data == OutputData(tournament)
        tried == WriteSinks(Sinks, outcome, 1)
    IN  [output_data |-> output_data, attempted |-> tried.attempted,
         raised |-> tried.raised]

IdleFiles ==
    /\ site = [i \in 1..Len(Listing) |-> InitialStatus(i)]
    /\ data_file = MissingFile
    /\ backup_file = MissingFile

IdleRun ==
    /\ poll_pc = "idle"
    /\ last_loaded = FALSE
    /\ last_prev = [flagged |-> FALSE, raised |-> FALSE, data |-> MissingFile]
    /\ last_todays = <<>>
    /\ last_selected = NoRecord
    /\ last_save = NothingSaved
    /\ rerun = FALSE

IdlePoll == today = 1 /\ IdleFiles /\ IdleRun

ForgetLastRun ==
    /\ poll_pc' = "idle"
    /\ last_loaded' = FALSE
    /\ last_prev' = [flagged |-> FALSE, raised |-> FALSE, data |-> MissingFile]
    /\ last_todays' = <<>>
    /\ last_selected' = NoRecord
    /\ last_save' = NothingSaved
    /\ rerun' = FALSE

\* the listing page changes the status it shows for one card
UpstreamChange ==
    \E i \in 1..Len(Listing) :
        /\ site[i] # NextStatus(site[i])
        /\ site' = [site EXCEPT ![i] = NextStatus(site[i])]
        /\ ForgetLastRun
        /\ UNCHANGED <<today, data_file, backup_file>>

\* the calendar date advances
Midnight ==
    /\ today < MaxDay
    /\ today' = today + 1
    /\ ForgetLastRun
    /\ UNCHANGED <<site, data_file, backup_file>>

\* lines 716-745: one run of main()
Main ==
    \E loaded \in BOOLEAN :
        /\ last_prev' = CheckPreviousTournamentStillActive(data_file, today)
        /\ last_loaded' = loaded
        /\ last_todays' = GetAllTodaysTournaments(site, today, loaded)
        /\ last_selected' = DetermineWhichTournamentToDisplay(last_todays')
        /\ rerun' = (poll_pc = "ran" /\ last_todays = last_todays')
        /\ \E outcome \in [{Sinks[k] : k \in 1..Len(Sinks)} -> WriteOutcomes] :
              /\ last_save' = SaveTournamentData(last_selected', outcome)
              /\ data_file' = FileAfter(Sinks[1], data_file, last_save', outcome,
                                        last_save'.output_data)
              /\ backup_file' = FileAfter(Sinks[2], backup_file, last_save', outcome,
                                          last_save'.output_data)
        /\ poll_pc' = "ran"
        /\ UNCHANGED <<today, site>>

(***************************************************************************)
(* save_tournament_data on any selection outcome, and the display agents   *)
(***************************************************************************)
\* selection outcomes: None, or a record; a card with no date and no link
\* has no url (lines 406-425)
SaveInputs ==
    {NoRecord} \cup
    { [name |-> n, venue |-> VENUE_NAME \o ", " \o VENUE_CITY, date |-> d.date,
       start_time |-> "7:00 PM", start_time_parsed |-> "19:00", status |-> st,
       url |-> d.url] :
        n \in {"Tuesday 9-Ball", "Sunday 8-Ball Shootout", "No Tournament Fee 9-Ball",
               "Monday 8-BALL Open", "8 Ball Classic"},
        st \in Statuses,
        d \in { [date |-> Calendar[1], url |-> "https://digitalpool.com/tournaments/t/"],
                [date |-> None, url |-> None] } }

\* line 734 alone: save_tournament_data(selected_tournament)
Save ==
    /\ poll_pc = "selected"
    /\ \E outcome \in [{Sinks[k] : k \in 1..Len(Sinks)} -> WriteOutcomes] :
          /\ last_save' = SaveTournamentData(last_selected, outcome)
          /\ data_file' = FileAfter(Sinks[1], data_file, last_save', outcome,
                                    last_save'.output_data)
          /\ backup_file' = FileAfter(Sinks[2], backup_file, last_save', outcome,
                                      last_save'.output_data)
    /\ poll_pc' = "saved"
    /\ UNCHANGED <<today, site, last_loaded, last_prev, last_todays, last_selected, rerun>>

\* json.load of a path: FALSE when the file is missing or unreadable
Readable(file) == file # MissingFile /\ file # CorruptFile

\* catt_monitor.py lines 131-156; a name of null raises in .lower() and the
\* handler returns False
CattShouldDisplay(tournament_data) ==
    IF tournament_data.tournament_name = None THEN FALSE
    ELSE IF Contains(StrLower(tournament_data.tournament_name), "no tournament") THEN FALSE
    ELSE IF tournament_data.status \notin {"In Progress", "Upcoming", "in_progress", "upcoming"}
    THEN FALSE
    ELSE tournament_data.display_tournament

\* smart_switcher_status.py lines 49-78
SwitcherShouldDisplay(tournament_data) ==
    IF \/ tournament_data.tournament_name = "No tournaments in progress"
       \/ tournament_data.tournament_url = None
       \/ tournament_data.tournament_url = ""
    THEN FALSE
    ELSE tournament_data.display_tournament

Unread == [data |-> MissingFile, decision |-> "unread"]

\* catt_monitor.py lines 62-68: the state load_cast_state returns when
\* STATE_FILE does not exist (cast_started_at and failsafe_check_done, which
\* no decision reads, are left out)
DefaultCastState ==
    [is_casting_tournament |-> FALSE, last_tournament_url |-> None, last_status |-> None]

IdleAgents ==
    /\ cast_seen = Unread
    /\ switch_seen = Unread
    /\ cast_state = DefaultCastState
    /\ cast_state_file = DefaultCastState
    /\ cast_cycle = [before |-> DefaultCastState, should_display |-> FALSE,
                     local_ip |-> FALSE, commands |-> <<>>, cast_ok |-> FALSE,
                     save_tried |-> FALSE]

\* the loop body marking the cast as running whatever catt_cast_site returned
MonitorAndCastOptimistic(tournament_data, state, local_ip, cast_ok) ==
    LET should_display == CattShouldDisplay(tournament_data)
    IN  IF ~local_ip
        THEN [state |-> state, commands |-> <<>>, save_tried |-> FALSE]
        ELSE IF should_display /\ ~state.is_casting_tournament
        THEN [state |-> [is_casting_tournament |-> TRUE,
                         last_tournament_url |-> tournament_data.tournament_url,
                         last_status |-> tournament_data.status],
              commands |-> <<"stop", "cast_site">>, save_tried |-> TRUE]
        ELSE IF ~should_display /\ state.is_casting_tournament
        THEN [state |-> DefaultCastState, commands |-> <<>>, save_tried |-> TRUE]
        ELSE [state |-> state, commands |-> <<>>, save_tried |-> FALSE]

\* the loop body casting again when the persisted url is not the one cast,
\* and stopping the cast when the tournament leaves the display
MonitorAndCastFollowing(tournament_data, state, local_ip, cast_ok) ==
    LET should_display == CattShouldDisplay(tournament_data)
    IN  IF ~local_ip
        THEN [state |-> state, commands |-> <<>>, save_tried |-> FALSE]
        ELSE IF should_display
                /\ (~state.is_casting_tournament
                    \/ state.last_tournament_url # tournament_data.tournament_url)
        THEN IF cast_ok
             THEN [state |-> [is_casting_tournament |-> TRUE,
                              last_tournament_url |-> tournament_data.tournament_url,
                              last_status |-> tournament_data.status],
                   commands |-> <<"stop", "cast_site">>, save_tried |-> TRUE]
             ELSE [state |-> state, commands |-> <<"stop", "cast_site">>,
                   save_tried |-> FALSE]
        ELSE IF ~should_display /\ state.is_casting_tournament
        THEN [state |-> DefaultCastState, commands |-> <<"stop">>, save_tried |-> TRUE]
        ELSE [state |-> state, commands |-> <<>>, save_tried |-> FALSE]

\* catt_monitor.py lines 176-220, one turn of the loop on a record that was
\* read: the state it leaves, the catt commands it issued in order, and
\* whether save_cast_state was called. `local_ip` is whether get_local_ip
\* returned an address, `cast_ok` whether catt_cast_site returned True.
MonitorAndCast(tournament_data, state, local_ip, cast_ok) ==
    LET should_display == CattShouldDisplay(tournament_data)
    IN  IF ~local_ip
        THEN [state |-> state, commands |-> <<>>, save_tried |-> FALSE]
        ELSE IF should_display /\ ~state.is_casting_tournament
        THEN IF cast_ok
             THEN [state |-> [is_casting_tournament |-> TRUE,
                              last_tournament_url |-> tournament_data.tournament_url,
                              last_status |-> tournament_data.status],
                   commands |-> <<"stop", "cast_site">>, save_tried |-> TRUE]
             ELSE [state |-> state, commands |-> <<"stop", "cast_site">>,
                   save_tried |-> FALSE]
        ELSE IF ~should_display /\ state.is_casting_tournament
        THEN [state |-> DefaultCastState, commands |-> <<>>, save_tried |-> TRUE]
        ELSE [state |-> state, commands |-> <<>>, save_tried |-> FALSE]

\* catt_monitor.py lines 166-231: one turn of the loop; it reads
\* /var/www/html/tournament_data.json, the path of DATA_FILE_BACKUP, and a
\* turn that finds no record changes nothing. `written` is whether the
\* open of save_cast_state (lines 79-87) succeeded.
CattMonitor ==
    /\ Readable(backup_file)
    /\ cast_seen' = [data |-> backup_file,
                     decision |-> IF CattShouldDisplay(backup_file) THEN "show" ELSE "hide"]
    /\ \E local_ip \in BOOLEAN, cast_ok \in BOOLEAN, written \in BOOLEAN :
          LET turn == MonitorAndCast(backup_file, cast_state, local_ip, cast_ok)
          IN  /\ cast_state' = turn.state
              /\ cast_state_file' =
                    IF turn.save_tried /\ written THEN turn.state ELSE cast_state_file
              /\ cast_cycle' = [before |-> cast_state,
                                should_display |-> CattShouldDisplay(backup_file),
                                local_ip |-> local_ip, commands |-> turn.commands,
                                cast_ok |-> /\ cast_ok
                                            /\ \E k \in 1..Len(turn.commands) :
                                                  turn.commands[k] = "cast_site",
                                save_tried |-> turn.save_tried]
    /\ UNCHANGED switch_seen

\* smart_switcher_status.py lines 27-46: the first of the two paths that
\* can be read
SwitcherData ==
    IF Readable(data_file) THEN data_file
    ELSE IF Readable(backup_file) THEN backup_file
    ELSE MissingFile

\* smart_switcher_status.py lines 81-112: index2.php shows the tournament
SmartSwitcher ==
    /\ switch_seen' =
          [data |-> SwitcherData,
           decision |-> IF Readable(SwitcherData) /\ SwitcherShouldDisplay(SwitcherData)
                        THEN "show" ELSE "hide"]
    /\ UNCHANGED <<cast_seen, cast_state, cast_state_file, cast_cycle>>

(***************************************************************************)
(* The second writer of /var/www/html/tournament_data.json                 *)
(***************************************************************************)
\* what the newest JSON file of the cloned repository can hold
RepoRecords ==
    { OutputData(NoRecord) } \cup
    { [tournament_name |-> "Friday 9-Ball", tournament_url |-> u,
       venue |-> VENUE_NAME \o ", " \o VENUE_CITY, date |-> "2025/11/28",
       start_time |-> "7:00 PM", status |-> st,
       payout_data |-> "payouts15.json",
       display_tournament |-> st \in {"In Progress", "Upcoming"}] :
        u \in {"https://digitalpool.com/tournaments/f/",
               "https://digitalpool.com/tournaments/g/"},
        st \in {"Upcoming", "In Progress", "Completed"} }

\* tournament_monitor.py lines 154-175: one turn of monitor_loop that pulled
\* and loaded a record; OUTPUT_FILE is the path of DATA_FILE_BACKUP
TournamentMonitor ==
    \E data \in RepoRecords :
        /\ backup_file' = data
        /\ UNCHANGED <<today, site, data_file, poll_pc, last_loaded, last_prev,
                       last_todays, last_selected, last_save, rerun>>

(***************************************************************************)
(* check_previous_tournament_still_active on any previous state            *)
(***************************************************************************)
PrevFiles ==
    {MissingFile, CorruptFile} \cup
    { [tournament_name |-> "Tuesday 9-Ball",
       tournament_url |-> "https://digitalpool.com/tournaments/t/",
       venue |-> VENUE_NAME \o ", " \o VENUE_CITY, date |-> d, start_time |-> "7:00 PM",
       status |-> st, payout_data |-> "payouts15.json", display_tournament |-> flag] :
        d \in {None, Calendar[1], Calendar[2], Calendar[3], "11/30/2025"}, st \in Statuses \cup {None}, flag \in BOOLEAN }

\* line 723 alone
CheckPrevious ==
    /\ poll_pc = "start"
    /\ last_prev' = CheckPreviousTournamentStillActive(data_file, today)
    /\ poll_pc' = "checked"
    /\ UNCHANGED <<today, site, data_file, backup_file, last_loaded, last_todays,
                   last_selected, last_save, rerun>>

(***************************************************************************)
(* Specifications                                                          *)
(***************************************************************************)
\* the poll cycle
Init == IdlePoll /\ IdleExtract /\ IdleParse /\ IdleSelect /\ IdleAgents

Next ==
    \/ Main /\ UNCHANGED <<extractVars, parseVars, selectVars, agentVars>>
    \/ UpstreamChange /\ UNCHANGED <<extractVars, parseVars, selectVars, agentVars>>
    \/ Midnight /\ UNCHANGED <<extractVars, parseVars, selectVars, agentVars>>

Spec == Init /\ [][Next]_vars

\* one card through the loop body of search_tournaments_on_page
InitExtract ==
    /\ card_text \in Cards(MaxLines)
    /\ page = <<[text |-> card_text, raises |-> FALSE]>>
    /\ card_idx = 1
    /\ card_pc = "card"
    /\ tournaments_found = <<>>
    /\ label_hit = 0
    /\ scan_ran = FALSE
    /\ status_step = "none"
    /\ IdlePoll /\ IdleParse /\ IdleSelect /\ IdleAgents

NextExtract ==
    \/ SkipCard /\ UNCHANGED <<pollVars, parseVars, selectVars, agentVars>>
    \/ ProcessCard /\ UNCHANGED <<pollVars, parseVars, selectVars, agentVars>>

SpecExtract == InitExtract /\ [][NextExtract]_vars

\* the cards of one page through the loop, some of them raising
InitPage ==
    /\ page \in Pages(MaxCards)
    /\ card_idx = 1
    /\ card_text = page[1].text
    /\ card_pc = "card"
    /\ tournaments_found = <<>>
    /\ label_hit = 0
    /\ scan_ran = FALSE
    /\ status_step = "none"
    /\ IdlePoll /\ IdleParse /\ IdleSelect /\ IdleAgents

NextPage ==
    \/ SkipCard /\ UNCHANGED <<pollVars, parseVars, selectVars, agentVars>>
    \/ ProcessCard /\ UNCHANGED <<pollVars, parseVars, selectVars, agentVars>>
    \/ FailCard /\ UNCHANGED <<pollVars, parseVars, selectVars, agentVars>>
    \/ NextCard /\ UNCHANGED <<pollVars, parseVars, selectVars, agentVars>>

SpecPage == InitPage /\ [][NextPage]_vars

\* one card that states a status through the same loop body, on any day
InitStatus ==
    /\ card_text \in StatusCards(MaxStatusLines)
    /\ page = <<[text |-> card_text, raises |-> FALSE]>>
    /\ card_idx = 1
    /\ card_pc = "card"
    /\ tournaments_found = <<>>
    /\ label_hit = 0
    /\ scan_ran = FALSE
    /\ status_step = "none"
    /\ today \in 1..MaxDay
    /\ IdleFiles /\ IdleRun /\ IdleParse /\ IdleSelect /\ IdleAgents

SpecStatus == InitStatus /\ [][NextExtract]_vars

\* one start-time string through parse_time_string into a record
InitParse ==
    /\ time_in \in TimeStrings
    /\ time_pc = "call"
    /\ time_fields = [built |-> FALSE, start_time |-> None, start_time_parsed |-> None]
    /\ IdlePoll /\ IdleExtract /\ IdleSelect /\ IdleAgents

NextParse == BuildTimeFields /\ UNCHANGED <<pollVars, extractVars, selectVars, agentVars>>

SpecParse == InitParse /\ [][NextParse]_vars

\* one candidate list through the selection policy
InitSelect ==
    /\ sel_in \in CandidateLists(MaxTournaments)
    /\ sel_pc = "call"
    /\ sel_out = NoRecord
    /\ IdlePoll /\ IdleExtract /\ IdleParse /\ IdleAgents

NextSelect == Determine /\ UNCHANGED <<pollVars, extractVars, parseVars, agentVars>>

SpecSelect == InitSelect /\ [][NextSelect]_vars

\* one selection outcome through save_tournament_data, read by the agents
InitSave ==
    /\ today = 1
    /\ IdleFiles
    /\ poll_pc = "selected"
    /\ last_loaded = TRUE
    /\ last_prev = [flagged |-> FALSE, raised |-> FALSE, data |-> MissingFile]
    /\ last_todays = <<>>
    /\ last_selected \in SaveInputs
    /\ last_save = NothingSaved
    /\ rerun = FALSE
    /\ IdleExtract /\ IdleParse /\ IdleSelect /\ IdleAgents

NextSave ==
    \/ Save /\ UNCHANGED <<extractVars, parseVars, selectVars, agentVars>>
    \/ CattMonitor /\ UNCHANGED <<extractVars, parseVars, selectVars, pollVars>>
    \/ SmartSwitcher /\ UNCHANGED <<extractVars, parseVars, selectVars, pollVars>>

SpecSave == InitSave /\ [][NextSave]_vars

\* one previous state through check_previous_tournament_still_active
InitPrev ==
    /\ today \in 1..MaxDay
    /\ site = [i \in 1..Len(Listing) |-> InitialStatus(i)]
    /\ data_file \in PrevFiles
    /\ backup_file = MissingFile
    /\ poll_pc = "start"
    /\ last_loaded = FALSE
    /\ last_prev = [flagged |-> FALSE, raised |-> FALSE, data |-> MissingFile]
    /\ last_todays = <<>>
    /\ last_selected = NoRecord
    /\ last_save = NothingSaved
    /\ rerun = FALSE
    /\ IdleExtract /\ IdleParse /\ IdleSelect /\ IdleAgents

NextPrev == CheckPrevious /\ UNCHANGED <<extractVars, parseVars, selectVars, agentVars>>

SpecPrev == InitPrev /\ [][NextPrev]_vars

\* the engine and tournament_monitor.py writing the path the agent reads
NextHandoff ==
    \/ Main /\ UNCHANGED <<extractVars, parseVars, selectVars, agentVars>>
    \/ UpstreamChange /\ UNCHANGED <<extractVars, parseVars, selectVars, agentVars>>
    \/ TournamentMonitor /\ UNCHANGED <<extractVars, parseVars, selectVars, agentVars>>

SpecHandoff == Init /\ [][NextHandoff]_vars

\* catt_monitor.py against the writers of the path it reads
NextCast ==
    \/ TournamentMonitor /\ UNCHANGED <<extractVars, parseVars, selectVars, agentVars>>
    \/ CattMonitor /\ UNCHANGED <<extractVars, parseVars, selectVars, pollVars>>

SpecCast == Init /\ [][NextCast]_vars

(***************************************************************************)
(* Properties                                                              *)
(***************************************************************************)
SeqToSet(q) == { q[k] : k \in 1..Len(q) }

\* the sort key of a record as minutes after midnight, read off the text
KeyMinutes(t) ==
    IF t.start_time_parsed = None THEN 0
    ELSE 60 * IntOf(SubSeq(t.start_time_parsed, 1, 2)) + IntOf(SubSeq(t.start_time_parsed, 4, 5))

\* C1: after a run of main() whose page pass succeeded, a tournament of an
\* earlier day that the previous state showed as displayed and In Progress,
\* and that the page still shows In Progress, is the selected record and is
\* written with display_tournament = true.
C1_AfterMidnightContinuation ==
    ( /\ poll_pc = "ran"
      /\ last_loaded
      /\ last_prev.flagged
      /\ \E i \in 1..Len(Listing) :
            /\ Listing[i].name = last_prev.data.tournament_name
            /\ site[i] = "In Progress" )
    => /\ last_selected.name = last_prev.data.tournament_name
       /\ OutputData(last_selected).display_tournament

\* C2: when the input holds a record In Progress, the record returned is In
\* Progress, is one of the input, and no In Progress record of the input has
\* a later normalized start time (an absent time counting as 00:00).
C2_InProgressLatest ==
    ( /\ sel_pc = "returned"
      /\ \E t \in SeqToSet(sel_in) : t.status = "In Progress" )
    => /\ sel_out.status = "In Progress"
       /\ sel_out \in SeqToSet(sel_in)
       /\ \A t \in SeqToSet(sel_in) :
             t.status = "In Progress" => KeyMinutes(t) <= KeyMinutes(sel_out)

C2_Witness ==
    /\ sel_pc = "returned"
    /\ \E a, b, c \in SeqToSet(sel_in) :
          /\ a.status = "In Progress" /\ b.status = "In Progress"
          /\ KeyMinutes(a) < KeyMinutes(b)
          /\ c.status = "Upcoming" /\ KeyMinutes(c) >= KeyMinutes(b)
          /\ sel_out = b

\* C3: when no input record is In Progress and some record is not
\* Completed, the record returned is a non-Completed record of the input and
\* no non-Completed record has an earlier normalized start time (an absent
\* time counting as 00:00); a Completed record is never returned.
C3_FirstScheduled ==
    sel_pc = "returned"
    => /\ sel_out.status # "Completed"
       /\ ( /\ \A t \in SeqToSet(sel_in) : t.status # "In Progress"
            /\ \E t \in SeqToSet(sel_in) : t.status # "Completed" )
          => /\ sel_out \in SeqToSet(sel_in)
             /\ \A t \in SeqToSet(sel_in) :
                   t.status # "Completed" => KeyMinutes(sel_out) <= KeyMinutes(t)

C3_Witness ==
    /\ sel_pc = "returned"
    /\ \A t \in SeqToSet(sel_in) : t.status # "In Progress"
    /\ \E a, b, c \in SeqToSet(sel_in) :
          /\ a.status = "Upcoming" /\ b.status = "Unknown" /\ c.status = "Completed"
          /\ KeyMinutes(c) < KeyMinutes(a) /\ KeyMinutes(a) < KeyMinutes(b)
          /\ sel_out = a

\* C4: the policy returns no record exactly when the input is empty or all
\* of its records are Completed; otherwise it returns a record of the input.
C4_NoneExactlyWhenAllCompleted ==
    sel_pc = "returned"
    => /\ sel_out = NoRecord
          <=> \A t \in SeqToSet(sel_in) : t.status = "Completed"
       /\ sel_out # NoRecord => sel_out \in SeqToSet(sel_in)

C4_Witness ==
    /\ sel_pc = "returned"
    /\ Len(sel_in) >= 2
    /\ \A t \in SeqToSet(sel_in) : t.status = "Completed"
    /\ sel_out = NoRecord

\* C5: the card whose only times are "Registration: 6:00 PM" and "Doors:
\* 6:30 PM" gets the raw start time "6:30 PM".
C5_FallbackExample ==
    ( /\ card_pc = "done"
      /\ card_text = Headers[1] \o "\nRegistration: 6:00 PM\nDoors: 6:30 PM" )
    => /\ tournaments_found # <<>>
       /\ tournaments_found[1].start_time = "6:30 PM"

LabelHits(card) ==
    { k \in 1..Len(PriorityPatterns) : ReSearch(PriorityPatterns[k], card) # <<>> }

\* C7: when a labelled start-time phrase occurs in the card, the start time
\* is the time captured by the first pattern of the priority list that
\* matches, the scan of all times does not run, and the card with
\* "Registration: 6:00 PM" and "Tournament Start: 7:00 PM" gets "7:00 PM".
C7_LabelPrecedence ==
    ( /\ card_pc = "done"
      /\ VenueMatches(card_text)
      /\ LabelHits(card_text) # {} )
    => LET k == CHOOSE a \in LabelHits(card_text) : \A b \in LabelHits(card_text) : a <= b
       IN  /\ label_hit = k
           /\ ~scan_ran
           /\ tournaments_found # <<>>
           /\ tournaments_found[1].start_time
                = PartText(card_text, ReSearch(PriorityPatterns[k], card_text), 2)
           /\ card_text = Headers[1] \o "\nRegistration: 6:00 PM\nTournament Start: 7:00 PM"
              => tournaments_found[1].start_time = "7:00 PM"

C7_Witness ==
    /\ card_pc = "done"
    /\ Contains(card_text, "Registration: 6:00 PM")
    /\ {1, 4} \subseteq LabelHits(card_text)
    /\ label_hit = 1
    /\ tournaments_found # <<>>
    /\ tournaments_found[1].start_time = "7:00 PM"

\* the 24-hour text a time of hour h, minutes m (":MM" or nothing) and
\* meridiem p stands for
Expected24(h, m, p) ==
    LET hr == IntOf(h)
        pm == p \in {"PM", "P.M."}
    IN  Pad2(IF pm THEN (IF hr = 12 THEN 12 ELSE hr + 12) ELSE (IF hr = 12 THEN 0 ELSE hr))
        \o ":" \o (IF m = "" THEN "00" ELSE SubSeq(m, 2, 3))

\* C8: every string of the shapes "H:MM PM", "H:MMPM", "H PM", "HPM", with
\* the meridiem written AM/PM or A.M./P.M., is parsed to its 24-hour value.
C8_AcceptsAllShapes ==
    time_pc = "built"
    => \A h \in {"1", "7", "12"}, m \in {"", ":00", ":30", ":05"}, g \in {"", " "},
          p \in {"AM", "PM", "A.M.", "P.M."} :
          time_in = h \o m \o g \o p
          => time_fields.start_time_parsed = Expected24(h, m, p)

\* no format of parse_time_string matches the string
NoFormatMatches(s) == \A k \in 1..Len(TimeFormats) : Strptime(s, TimeFormats[k]).raised

\* C9: no exception leaves parse_time_string, so the record is built; for an
\* input that matches none of the formats the record keeps the raw start
\* time and has no normalized start time.
C9_NeverRaises ==
    time_pc = "built"
    => /\ time_fields.built
       /\ (time_in = None \/ NoFormatMatches(Strip(time_in)))
          => /\ time_fields.start_time = time_in
             /\ time_fields.start_time_parsed = None

C9_Witness ==
    /\ time_pc = "built"
    /\ time_in = "7:00 P.M."
    /\ time_fields.built
    /\ time_fields.start_time = "7:00 P.M."
    /\ time_fields.start_time_parsed = None

\* C10: every record get_all_todays_tournaments returns has today's date,
\* and no card of the page with another date or with no date is among them.
C10_CandidatesAreTodays ==
    poll_pc = "ran"
    => /\ \A t \in SeqToSet(last_todays) : t.date = DateStr(today)
       /\ \A i \in 1..Len(Listing) :
             Listing[i].date # DateStr(today)
             => \A t \in SeqToSet(last_todays) : t.name # Listing[i].name

C10_Witness ==
    /\ poll_pc = "ran"
    /\ today > 1
    /\ last_todays # <<>>
    /\ \E i \in 1..Len(Listing) : Listing[i].date = None
    /\ \E i \in 1..Len(Listing) : Listing[i].date = DateStr(today - 1)

\* C11: in the record save_tournament_data builds and writes,
\* display_tournament is true exactly when the selected record has status
\* In Progress or Upcoming; it is false for Unknown, for Completed and when
\* nothing was selected.
C11_DisplayRule ==
    poll_pc = "saved" =>
        /\ last_save.output_data.display_tournament
              <=> ( /\ last_selected # NoRecord
                    /\ last_selected.status \in {"In Progress", "Upcoming"} )
        /\ Readable(data_file) => data_file = last_save.output_data
        /\ Readable(backup_file) => backup_file = last_save.output_data

C11_Witness ==
    /\ poll_pc = "saved"
    /\ last_selected # NoRecord
    /\ last_selected.status = "Upcoming"
    /\ data_file.display_tournament
    /\ backup_file = data_file

\* C12: whenever an agent has read a record that save_tournament_data
\* wrote, its decision to show the tournament equals the record's
\* display_tournament flag.
C12_AgentsTrustFlag ==
    /\ cast_seen.decision # "unread"
          => ((cast_seen.decision = "show") <=> cast_seen.data.display_tournament)
    /\ (switch_seen.decision # "unread" /\ Readable(switch_seen.data))
          => ((switch_seen.decision = "show") <=> switch_seen.data.display_tournament)

\* whether a line of the card is exactly this text
HasLine(card, line) == Contains(card \o "\n", "\n" \o line \o "\n")

\* whether the card holds a keyword of entry k of status_indicators
HasKeywordOf(card, k) ==
    \E j \in 1..Len(StatusIndicators[k].keywords) :
        Contains(card, StatusIndicators[k].keywords[j])

\* the percent lines of the cards, with the number each states
PercentCases == { [line |-> "0% Complete", n |-> 0], [line |-> "50% complete", n |-> 50],
                  [line |-> "100%  Complete", n |-> 100] }

\* C13: the status of a card that holds a status keyword is In Progress when
\* it holds an In Progress keyword, else Upcoming when it holds an Upcoming
\* keyword, else Completed; and the keyword step is the one that set it.
C13_KeywordOrder ==
    ( /\ card_pc = "done"
      /\ Len(tournaments_found) = 1
      /\ \E k \in 1..3 : HasKeywordOf(card_text, k) )
    => /\ tournaments_found[1].status =
             ( IF HasKeywordOf(card_text, 1) THEN "In Progress"
               ELSE IF HasKeywordOf(card_text, 2) THEN "Upcoming"
               ELSE "Completed" )
       /\ status_step = "keyword"

C13_Witness ==
    /\ card_pc = "done"
    /\ HasLine(card_text, "Completed")
    /\ HasLine(card_text, "Status: Playing")
    /\ Len(tournaments_found) = 1
    /\ tournaments_found[1].status = "In Progress"

\* C14: the status of a card with no status keyword and one "<N>% Complete"
\* line is Completed for N = 100, Upcoming for N = 0 and In Progress for
\* 0 < N < 100.
C14_PercentStep ==
    \A p \in PercentCases :
        ( /\ card_pc = "done"
          /\ Len(tournaments_found) = 1
          /\ \A k \in 1..3 : ~HasKeywordOf(card_text, k)
          /\ HasLine(card_text, p.line)
          /\ \A q \in PercentCases \ {p} : ~HasLine(card_text, q.line) )
        => /\ tournaments_found[1].status =
                 ( IF p.n = 100 THEN "Completed"
                   ELSE IF p.n = 0 THEN "Upcoming"
                   ELSE "In Progress" )
           /\ status_step = "percent"

C14_Witness ==
    /\ card_pc = "done"
    /\ HasLine(card_text, "0% Complete")
    /\ HasLine(card_text, "2025/11/30")
    /\ today = 3
    /\ Len(tournaments_found) = 1
    /\ tournaments_found[1].status = "Upcoming"

\* C15: the status of a card with no status keyword and no percent line is
\* Upcoming when its date is today, Completed when its date is before today,
\* and Unknown when its date is after today or the card has no date.
C15_DateStep ==
    ( /\ card_pc = "done"
      /\ Len(tournaments_found) = 1
      /\ \A k \in 1..3 : ~HasKeywordOf(card_text, k)
      /\ \A p \in PercentCases : ~HasLine(card_text, p.line) )
    => /\ status_step = "date"
       /\ tournaments_found[1].status =
             ( IF ~HasLine(card_text, "2025/11/30") THEN "Unknown"
               ELSE IF today = 2 THEN "Upcoming"
               ELSE IF today > 2 THEN "Completed"
               ELSE "Unknown" )

C15_Witness ==
    /\ card_pc = "done"
    /\ HasLine(card_text, "2025/11/30")
    /\ today = 3
    /\ Len(tournaments_found) = 1
    /\ status_step = "date"
    /\ tournaments_found[1].status = "Completed"

\* C16: check_previous_tournament_still_active returns the previous record
\* exactly when that record can be read, has display_tournament true, status
\* In Progress and a date before today; otherwise it returns None; and no
\* exception leaves it.
C16_ContinuationTrigger ==
    poll_pc = "checked" =>
        /\ ~last_prev.raised
        /\ last_prev.flagged
              <=> ( /\ data_file # MissingFile
                    /\ data_file # CorruptFile
                    /\ data_file.display_tournament
                    /\ data_file.status = "In Progress"
                    /\ \E d \in 1..(today - 1) : Calendar[d] = data_file.date )
        /\ last_prev.flagged => last_prev.data = data_file

C16_Witness ==
    /\ poll_pc = "checked"
    /\ last_prev.flagged
    /\ last_prev.data.date = Calendar[1]
    /\ today > 1

\* C17: every call of save_tournament_data attempts a write on each path of
\* the list, in its order, also after a write that failed, and no exception
\* leaves the call.
C17_EverySinkAttempted ==
    poll_pc = "saved" =>
        /\ last_save.attempted = Sinks
        /\ ~last_save.raised

C17_Witness ==
    /\ poll_pc = "saved"
    /\ last_selected # NoRecord
    /\ data_file = MissingFile
    /\ backup_file = last_save.output_data
    /\ last_save.attempted = Sinks

\* C18: the path the casting agent reads changes only by a write of the
\* engine: every step that changes its content is a run of main() that
\* leaves in it the record that run built.
C18_SingleWriter ==
    [][ backup_file' # backup_file
          => (poll_pc' = "ran" /\ backup_file' = last_save'.output_data) ]_vars

C20_NoneSentinel ==
    (poll_pc = "saved" /\ last_selected = NoRecord) =>
        /\ last_save.output_data =
              [tournament_name |-> "No tournaments to display", tournament_url |-> None,
               venue |-> None, date |-> None, start_time |-> None, status |-> None,
               payout_data |-> None, display_tournament |-> FALSE]
        /\ Readable(data_file) => data_file = last_save.output_data
        /\ Readable(backup_file) => backup_file = last_save.output_data

C20_Witness ==
    /\ poll_pc = "saved"
    /\ last_selected = NoRecord
    /\ data_file.tournament_name = "No tournaments to display"
    /\ backup_file = data_file

\* whether the name holds the letters of "8-ball" in either case at some
\* position
NamesEightBall(name) ==
    LET word == <<{"8"}, {"-"}, {"b", "B"}, {"a", "A"}, {"l", "L"}, {"l", "L"}>>
    IN  \E i \in 1..Len(name) :
            /\ i + Len(word) - 1 <= Len(name)
            /\ \A k \in 1..Len(word) : Ch(name, i + k - 1) \in word[k]

\* C21: for a selected record, payout_data of the record built and written
\* is the 20-position dataset exactly when the tournament name contains
\* "8-ball" in any letter case, and the 15-position dataset for every other
\* name.
C21_PayoutMapping ==
    (poll_pc = "saved" /\ last_selected # NoRecord) =>
        /\ last_save.output_data.payout_data =
              IF NamesEightBall(last_selected.name) THEN "payouts20.json"
              ELSE "payouts15.json"
        /\ Readable(data_file) => data_file.payout_data = last_save.output_data.payout_data
        /\ Readable(backup_file)
              => backup_file.payout_data = last_save.output_data.payout_data

C21_Witness ==
    /\ poll_pc = "saved"
    /\ last_selected # NoRecord
    /\ last_selected.name = "Monday 8-BALL Open"
    /\ data_file.payout_data = "payouts20.json"
    /\ backup_file = data_file

\* C22: a card whose text contains the venue name but not the city never
\* produces a record, whatever else it contains; a record is built only for
\* a card containing both literals.
C22_VenueFilter ==
    card_pc = "done" =>
        /\ (Contains(card_text, "Bankshot Billiards") /\ ~Contains(card_text, "Hilliard"))
              => tournaments_found = <<>>
        /\ tournaments_found # <<>>
              => (Contains(card_text, "Bankshot Billiards") /\ Contains(card_text, "Hilliard"))

C22_Witness ==
    /\ card_pc = "done"
    /\ card_text = Headers[2] \o "\n" \o CardLines[3]
    /\ Contains(card_text, VENUE_NAME)
    /\ ~Contains(card_text, VENUE_CITY)
    /\ tournaments_found = <<>>

\* C23: smart_switcher_status chooses the tournament page (index2.php)
\* only when the status of the persisted record is In Progress; for a
\* persisted record with any other status it chooses the default page.
C23_SwitcherInProgressOnly ==
    (switch_seen.decision # "unread" /\ Readable(switch_seen.data)) =>
        /\ switch_seen.decision = "show" => switch_seen.data.status = "In Progress"
        /\ switch_seen.data.status # "In Progress" => switch_seen.decision = "hide"

\* whether the turn issued catt cast_site
CastAttempted(cycle) == \E k \in 1..Len(cycle.commands) : cycle.commands[k] = "cast_site"

\* C24 as stated: is_casting_tournament goes from false to true only in a
\* turn in which catt_cast_site returned success; a failed cast leaves the
\* state in memory and STATE_FILE as they were; the cast is attempted in
\* every turn in which should_display is true and nothing is being cast.
C24_RetryEveryCycle ==
    [][ /\ (~cast_cycle'.before.is_casting_tournament /\ cast_state'.is_casting_tournament)
              => (CastAttempted(cast_cycle') /\ cast_cycle'.cast_ok)
        /\ (CastAttempted(cast_cycle') /\ ~cast_cycle'.cast_ok)
              => (cast_state' = cast_cycle'.before /\ cast_state_file' = cast_state_file)
        /\ (cast_cycle'.should_display /\ ~cast_cycle'.before.is_casting_tournament)
              => CastAttempted(cast_cycle') ]_vars

\* C24, amended: the same, the cast being attempted in every turn in which
\* should_display is true, nothing is being cast and get_local_ip returned
\* an address.
C24_RetryWhenAddressKnown ==
    [][ /\ (~cast_cycle'.before.is_casting_tournament /\ cast_state'.is_casting_tournament)
              => (CastAttempted(cast_cycle') /\ cast_cycle'.cast_ok)
        /\ (CastAttempted(cast_cycle') /\ ~cast_cycle'.cast_ok)
              => (cast_state' = cast_cycle'.before /\ cast_state_file' = cast_state_file)
        /\ ( /\ cast_cycle'.should_display
             /\ ~cast_cycle'.before.is_casting_tournament
             /\ cast_cycle'.local_ip )
              => CastAttempted(cast_cycle') ]_vars

\* a failed cast after a failed cast: the state is still the default one
C24_Witness ==
    /\ CastAttempted(cast_cycle)
    /\ ~cast_cycle.cast_ok
    /\ cast_cycle.should_display
    /\ cast_seen.data.status = "In Progress"
    /\ cast_state = DefaultCastState
    /\ cast_state_file = DefaultCastState

\* C25 as stated: catt commands are issued only in a turn where
\* should_display is true and is_casting_tournament is false; while
\* is_casting_tournament is true no command is issued even if the persisted
\* url or status is no longer the one cast; and in a turn where
\* should_display is false while casting, the state is reset to not casting
\* and no stop is issued.
C25_ResetEveryCycle ==
    [][ /\ cast_cycle'.commands # <<>>
              => (cast_cycle'.should_display /\ ~cast_cycle'.before.is_casting_tournament)
        /\ cast_cycle'.before.is_casting_tournament => cast_cycle'.commands = <<>>
        /\ (~cast_cycle'.should_display /\ cast_cycle'.before.is_casting_tournament)
              => (cast_state' = DefaultCastState /\ cast_cycle'.commands = <<>>) ]_vars

\* C25, amended: the same, the reset taking place in a turn where
\* should_display is false while casting and get_local_ip returned an
\* address; without an address the turn ends with the state as it was.
C25_ResetWhenAddressKnown ==
    [][ /\ cast_cycle'.commands # <<>>
              => (cast_cycle'.should_display /\ ~cast_cycle'.before.is_casting_tournament)
        /\ cast_cycle'.before.is_casting_tournament => cast_cycle'.commands = <<>>
        /\ (~cast_cycle'.should_display /\ cast_cycle'.before.is_casting_tournament)
              => /\ cast_cycle'.commands = <<>>
                 /\ cast_state' = IF cast_cycle'.local_ip THEN DefaultCastState
                                  ELSE cast_cycle'.before ]_vars

\* a turn that read another url than the one being cast and issued nothing
C25_Witness ==
    /\ cast_cycle.before.is_casting_tournament
    /\ cast_cycle.should_display
    /\ cast_cycle.local_ip
    /\ cast_seen.data.tournament_url # cast_cycle.before.last_tournament_url
    /\ cast_seen.data.status # cast_cycle.before.last_status
    /\ cast_cycle.commands = <<>>
    /\ cast_state = cast_cycle.before

\* the cards of the page that the loop has finished with
CardsDone == IF card_pc = "done" THEN card_idx ELSE card_idx - 1

\* the dates of the finished cards that hold both literals and raised
\* nothing, in the order of the page
SurvivingDates ==
    LET ix == SelectSeq([k \in 1..CardsDone |-> k],
                        LAMBDA k : /\ ~page[k].raises
                                   /\ Contains(page[k].text, VENUE_NAME)
                                   /\ Contains(page[k].text, VENUE_CITY))
    IN  [i \in 1..Len(ix) |-> TournamentDate(page[ix[i]].text)]

\* C26: an exception raised while one card is extracted skips that card
\* only; every other matching card of the pass has its record, and the
\* pass returns the records of all cards that did not fail, in page order.
C26_CardIsolation ==
    [i \in 1..Len(tournaments_found) |-> tournaments_found[i].date] = SurvivingDates

C26_Witness ==
    /\ Len(page) = 3
    /\ card_idx = 3
    /\ card_pc = "done"
    /\ ~page[1].raises /\ VenueMatches(page[1].text)
    /\ page[2].raises /\ VenueMatches(page[2].text)
    /\ ~page[3].raises /\ VenueMatches(page[3].text)
    /\ page[1].text # page[3].text
    /\ Len(tournaments_found) = 2

====
